---- MODULE Spec2Model ----
(***************************************************************************)
(* Model of blip_script_v2_lib.                                            *)
(* The context-variable store: VariableName, VariableEntry,               *)
(* VariableRepository and Context; Date.now() is the clock `now`.         *)
(* The HTTP facade: HttpMethod, HttpRequestOptions, HttpResponseWrapper   *)
(* and HttpRequest.fetchAsync, in its successor and its earlier variant.  *)
(* Time: parseDate and dateToString of Time.js and of core.js.            *)
(***************************************************************************)
EXTENDS Integers, FiniteSets, Sequences, TLC

(* ---------- bounds ---------- *)
MaxTime == 2
MaxTtl == 1
MaxRequests == 2
MaxFormatLen == 5

(* ---------- JavaScript values ---------- *)
JSUndefined == "undefined"
JSNull == "null"
EmptyString == ""
EmptyObject == "{}"

\* Values a script passes to setVariableAsync.
Values == {JSUndefined, JSNull, "a"}

\* `null` in VariableEntry.expiration (no expiration).
NoExpiration == -1

\* The Context instances: two separately constructed ones.
Contexts == {"A", "B"}

\* Arguments passed as `name`: valid strings, the empty string, a missing
\* argument and a non-string.
ValidNames == {"x", "y"}
NameArgs ==
  {[type |-> "string", str |-> s] : s \in ValidNames \cup {EmptyString}}
    \cup {[type |-> "undefined", str |-> "undefined"],
          [type |-> "number", str |-> "5"]}

\* Arguments passed as `expiration`: omitted, or a number of milliseconds.
ExpirationArgs ==
  {[given |-> FALSE, ms |-> 0]}
    \cup {[given |-> TRUE, ms |-> n] : n \in (-1)..MaxTtl}

\* store, now, last: the Context repositories, the clock and the last
\* Context call; http: the last fetchAsync call and the number of requests
\* handed to fetch; time: the last call of a Time method.
VARIABLES store, now, last, http, time
vars == <<store, now, last, http, time>>

(* ---------- VariableName ---------- *)
\* JavaScript truthiness of a name argument.
Truthy(name) ==
  CASE name.type = "undefined" -> FALSE
    [] name.type = "string" -> name.str # EmptyString
    [] OTHER -> name.str \notin {"0", "NaN"}

\* Variant without the `typeof name !== "string"` test.
VariableName_NoTypeCheck(name) ==
  IF ~Truthy(name) THEN "ReferenceError" ELSE "none"

\* new VariableName(name): the error it throws, or "none".
VariableName(name) ==
  IF ~Truthy(name) THEN "ReferenceError"
  ELSE IF name.type # "string" THEN "TypeError"
  ELSE "none"

\* Default parameter `expiration = 0`.
ExpirationOf(arg) == IF arg.given THEN arg.ms ELSE 0

(* ---------- VariableEntry ---------- *)
VariableEntry(value, expiration, t) ==
  [value |-> value,
   expiration |-> IF expiration > 0 THEN t + expiration ELSE NoExpiration]

\* Variant without the `expiration !== null` test.
isExpired_NoNullCheck(entry, t) == t > entry.expiration

isExpired(entry, t) ==
  entry.expiration # NoExpiration /\ t > entry.expiration

(* ---------- VariableRepository (st is the #store Map) ---------- *)
MapDelete(st, name) == [m \in DOMAIN st \ {name} |-> st[m]]

MapSet(st, name, entry) ==
  [m \in DOMAIN st \cup {name} |-> IF m = name THEN entry ELSE st[m]]

\* has(name): `entry && !entry.isExpired()`, a JavaScript value.
RepoHas(st, name, t) ==
  IF name \notin DOMAIN st THEN JSUndefined
  ELSE IF isExpired(st[name], t) THEN "false"
  ELSE "true"

\* Variant returning `entry.value || null`.
RepoGet_FalsyAsMissing(st, name, t) ==
  IF name \notin DOMAIN st \/ isExpired(st[name], t)
  THEN [store |-> MapDelete(st, name), result |-> JSNull]
  ELSE [store |-> st,
        result |-> IF st[name].value \in {JSUndefined, JSNull, EmptyString}
                   THEN JSNull ELSE st[name].value]

\* Variant without the `entry.isExpired()` test.
RepoGet_NoExpiredCheck(st, name, t) ==
  IF name \notin DOMAIN st
  THEN [store |-> st, result |-> JSNull]
  ELSE [store |-> st, result |-> st[name].value]

\* get(name): the Map after the call and the value returned.
RepoGet(st, name, t) ==
  IF name \notin DOMAIN st \/ isExpired(st[name], t)
  THEN [store |-> MapDelete(st, name), result |-> JSNull]
  ELSE [store |-> st, result |-> st[name].value]

\* Variant that keeps the expiration of the entry it replaces.
RepoSet_KeepsExpiration(st, name, value, expiration, t) ==
  MapSet(st, name,
         IF name \in DOMAIN st
         THEN [value |-> value, expiration |-> st[name].expiration]
         ELSE VariableEntry(value, expiration, t))

RepoSet(st, name, value, expiration, t) ==
  MapSet(st, name, VariableEntry(value, expiration, t))

RepoDelete(st, name) == MapDelete(st, name)

(* ---------- Context ---------- *)
\* Variant with one #store shared by all instances (a static field).
OwnRepository_Shared(c, st) == [d \in Contexts |-> st]

\* Each Context owns its repository: the stores after context c's
\* repository became st.
OwnRepository(c, st) == [store EXCEPT ![c] = st]

\* Variant that returns what get returns but leaves the Map as it was.
ContextGet_NoEviction(st, name, t) ==
  IF VariableName(name) # "none"
  THEN [err |-> VariableName(name), store |-> st, result |-> JSUndefined]
  ELSE [err |-> "none", store |-> st,
        result |-> RepoGet(st, name.str, t).result]

ContextGet(st, name, t) ==
  IF VariableName(name) # "none"
  THEN [err |-> VariableName(name), store |-> st, result |-> JSUndefined]
  ELSE [err |-> "none",
        store |-> RepoGet(st, name.str, t).store,
        result |-> RepoGet(st, name.str, t).result]

\* Variant without the `expiration < 0` test.
ContextSet_NoExpirationCheck(st, name, value, expiration, t) ==
  IF VariableName(name) # "none"
  THEN [err |-> VariableName(name), store |-> st, result |-> JSUndefined]
  ELSE LET st1 == IF value = JSUndefined
                  THEN RepoSet(st, name.str, EmptyObject, expiration, t)
                  ELSE st
       IN [err |-> "none",
           store |-> RepoSet(st1, name.str, value, expiration, t),
           result |-> JSUndefined]

ContextSet(st, name, value, expiration, t) ==
  IF VariableName(name) # "none"
  THEN [err |-> VariableName(name), store |-> st, result |-> JSUndefined]
  ELSE IF expiration < 0
  THEN [err |-> "ExpirationError", store |-> st, result |-> JSUndefined]
  ELSE LET st1 == IF value = JSUndefined
                  THEN RepoSet(st, name.str, EmptyObject, expiration, t)
                  ELSE st
       IN [err |-> "none",
           store |-> RepoSet(st1, name.str, value, expiration, t),
           result |-> JSUndefined]

\* Variant that throws when the variable does not exist.
ContextDelete_ThrowsWhenAbsent(st, name, t) ==
  IF VariableName(name) # "none"
  THEN [err |-> VariableName(name), store |-> st, result |-> JSUndefined]
  ELSE IF RepoHas(st, name.str, t) # "true"
  THEN [err |-> "ReferenceError", store |-> st, result |-> JSUndefined]
  ELSE [err |-> "none", store |-> RepoDelete(st, name.str),
        result |-> JSUndefined]

ContextDelete(st, name, t) ==
  IF VariableName(name) # "none"
  THEN [err |-> VariableName(name), store |-> st, result |-> JSUndefined]
  ELSE IF RepoHas(st, name.str, t) # "true"
  THEN [err |-> "none", store |-> st, result |-> JSUndefined]
  ELSE [err |-> "none", store |-> RepoDelete(st, name.str),
        result |-> JSUndefined]

(* ---------- record of the last call ---------- *)
NoName == [type |-> "undefined", str |-> "undefined"]

\* What the repository held for a name when a call was made.
Before(st, n, t) ==
  IF n \notin DOMAIN st THEN "absent"
  ELSE IF isExpired(st[n], t) THEN "expired"
  ELSE "live"

\* What the script saw of its last call: the call, the error raised (or
\* "none"), the value returned, and what the repository held for the name
\* when the call was made.
Call(op, c, name, value, r) ==
  [op |-> op, ctx |-> c, name |-> name, value |-> value,
   err |-> r.err, result |-> r.result,
   before |-> Before(store[c], name.str, now)]

(* ---------- HttpMethod / HttpRequestOptions ---------- *)
\* HttpMethod.#methods.
HttpMethods ==
  {"GET", "POST", "PUT", "PATCH", "DELETE", "OPTIONS", "HEAD", "TRACE"}

HttpMethodDefault == "GET"

\* Variant that accepts every method.
HttpMethodIsValid_AcceptsAll(method) == TRUE

\* HttpMethod.isValid(method): #methods.includes(method).
HttpMethodIsValid(method) == method \in HttpMethods

\* Values passed as options.method: verbs, a lower-case verb, an unknown
\* word, and the falsy values (empty string, null, no method at all).
MethodArgs ==
  {"GET", "POST", "TRACE", "get", "FETCH", EmptyString, JSNull, JSUndefined}

\* Values passed as options.body: none, or something to send.
BodyArgs == {JSUndefined, "payload"}

HttpOptions == {[method |-> m, body |-> b] : m \in MethodArgs, b \in BodyArgs}

\* JavaScript truthiness of an option value.
TruthyOption(v) == v \notin {EmptyString, JSNull, JSUndefined}

\* new HttpRequestOptions(options): the error thrown (or "none") and the
\* fields of the object.
HttpRequestOptions(options) ==
  LET method == IF TruthyOption(options.method)
                THEN options.method ELSE HttpMethodDefault
      body == IF TruthyOption(options.body) THEN options.body ELSE JSNull
  IN [err |-> IF HttpMethodIsValid(method)
              THEN "none" ELSE "InvalidMethodError",
      method |-> method, headers |-> EmptyObject, body |-> body]

\* toFetchInit(): the init handed to fetch; the body is attached only for a
\* method other than the default and a truthy body.
toFetchInit(ro) ==
  [method |-> ro.method, headers |-> ro.headers,
   body |-> IF ro.method # HttpMethodDefault /\ TruthyOption(ro.body)
            THEN ro.body ELSE JSUndefined]

\* No call of the transport.
NoTransport == [kind |-> "none", status |-> 0, body |-> EmptyString]

\* No request handed to fetch.
NoFetchInit ==
  [method |-> JSUndefined, headers |-> JSUndefined, body |-> JSUndefined]

(* ---------- the transport (fetch, response.text) ---------- *)
\* Response bodies: three JSON texts and two texts that are not JSON.
RawBodies == {"{}", "null", "1", "oops", EmptyString}

Statuses == {200, 404}

\* What the transport does with a request: fetch rejects, the body read
\* rejects, or a response with a status and a body arrives.
Transports ==
  {[kind |-> "fetch rejects", status |-> 0, body |-> EmptyString]}
    \cup {[kind |-> "text rejects", status |-> st, body |-> EmptyString] :
            st \in Statuses}
    \cup {[kind |-> "response", status |-> st, body |-> b] :
            st \in Statuses, b \in RawBodies}

\* error.message of the rejection.
TransportErrorMessage(tr) ==
  IF tr.kind = "fetch rejects" THEN "fetch failed" ELSE "body read failed"

\* JSON.parse(body): the value, or a thrown SyntaxError.
JSONParse(body) ==
  CASE body = "{}" -> [threw |-> FALSE, value |-> EmptyObject]
    [] body = "null" -> [threw |-> FALSE, value |-> JSNull]
    [] body = "1" -> [threw |-> FALSE, value |-> "1"]
    [] OTHER -> [threw |-> TRUE, value |-> JSUndefined]

(* ---------- HttpResponseWrapper ---------- *)
\* The object a call returns; hasJson tells whether it has a json field,
\* jsonAsync is what jsonAsync() resolves to.
Response(status, headers, body, success, hasJson, json, error, jsonAsync) ==
  [status |-> status, headers |-> headers, body |-> body,
   success |-> success, hasJson |-> hasJson, json |-> json,
   error |-> error, jsonAsync |-> jsonAsync]

\* Nothing returned (the call raised).
NoResponse ==
  Response(-1, JSUndefined, JSUndefined, FALSE, FALSE, JSUndefined,
           JSUndefined, JSUndefined)

IsSuccessful(status) == status >= 200 /\ status < 300

\* Variant whose #parseJson throws when the body is not JSON.
HttpResponseWrapper_ParseThrows(status, rawBody) ==
  LET parsed == JSONParse(rawBody) IN
  IF parsed.threw
  THEN [err |-> "JsonParseError", response |-> NoResponse]
  ELSE [err |-> "none",
        response |-> Response(status, EmptyObject, rawBody,
                              IsSuccessful(status), TRUE, parsed.value,
                              JSUndefined, parsed.value)]

\* new HttpResponseWrapper(response, rawBody) of the successor facade:
\* #parseJson returns undefined when the body is not JSON, and the json
\* field is set only when the parse returned something.
HttpResponseWrapper(status, rawBody) ==
  LET parsed == JSONParse(rawBody)
      parsedJson == IF parsed.threw THEN JSUndefined ELSE parsed.value
      hasJson == parsedJson # JSUndefined
  IN [err |-> "none",
      response |-> Response(status, EmptyObject, rawBody,
                            IsSuccessful(status), hasJson,
                            IF hasJson THEN parsedJson ELSE JSUndefined,
                            JSUndefined,
                            IF hasJson THEN parsedJson ELSE JSUndefined)]

\* new HttpResponseWrapper(response, rawBody) of the earlier variant: the
\* headers are kept as received and #parseJson throws JsonParseError.
HttpResponseWrapper_Earlier(status, rawBody) ==
  LET parsed == JSONParse(rawBody) IN
  IF parsed.threw
  THEN [err |-> "JsonParseError", response |-> NoResponse]
  ELSE [err |-> "none",
        response |-> Response(status, "Headers", rawBody,
                              IsSuccessful(status), TRUE, parsed.value,
                              JSUndefined, parsed.value)]

JsonParseErrorMessage == "Failed to parse response body as JSON"

\* The object built in the catch block of fetchAsync.
DegradedResponse(message) ==
  Response(0, EmptyObject, JSNull, FALSE, TRUE, JSNull, message, JSNull)

(* ---------- HttpRequest ---------- *)
\* What a call of fetchAsync did: the error raised to the caller (or
\* "none"), the init handed to fetch (NoFetchInit when fetch was not
\* called), and the object returned.
FetchResult(raised, sent, response) ==
  [raised |-> raised, sent |-> sent, response |-> response]

\* Variant without the try/catch around the transport calls.
fetchAsync_NoCatch(options, tr) ==
  LET ro == HttpRequestOptions(options) IN
  IF ro.err # "none" THEN FetchResult(ro.err, NoFetchInit, NoResponse)
  ELSE IF tr.kind # "response"
  THEN FetchResult("TypeError", toFetchInit(ro), NoResponse)
  ELSE FetchResult("none", toFetchInit(ro),
                   HttpResponseWrapper(tr.status, tr.body).response)

\* fetchAsync(url, options) of the successor facade: the options are built
\* before the try; fetch, the body read and the wrapper are inside it.
fetchAsync(options, tr) ==
  LET ro == HttpRequestOptions(options)
      w == HttpResponseWrapper(tr.status, tr.body)
  IN
  IF ro.err # "none" THEN FetchResult(ro.err, NoFetchInit, NoResponse)
  ELSE IF tr.kind # "response"
  THEN FetchResult("none", toFetchInit(ro),
                   DegradedResponse(TransportErrorMessage(tr)))
  ELSE IF w.err # "none"
  THEN FetchResult("none", toFetchInit(ro),
                   DegradedResponse(JsonParseErrorMessage))
  ELSE FetchResult("none", toFetchInit(ro), w.response)

\* fetchAsync(url, options) of the earlier variant: the wrapper is built
\* inside the try, so its JsonParseError lands in the catch.
fetchAsync_Earlier(options, tr) ==
  LET ro == HttpRequestOptions(options)
      w == HttpResponseWrapper_Earlier(tr.status, tr.body)
  IN
  IF ro.err # "none" THEN FetchResult(ro.err, NoFetchInit, NoResponse)
  ELSE IF tr.kind # "response"
  THEN FetchResult("none", toFetchInit(ro),
                   DegradedResponse(TransportErrorMessage(tr)))
  ELSE IF w.err # "none"
  THEN FetchResult("none", toFetchInit(ro),
                   DegradedResponse(JsonParseErrorMessage))
  ELSE FetchResult("none", toFetchInit(ro), w.response)

(* ---------- TimeFormatter ---------- *)
\* A format is the sequence of its characters.
FormatChars == {"d", "/"}

RECURSIVE FormatsOfLen(_)
FormatsOfLen(n) ==
  IF n = 0 THEN {<<>>}
  ELSE {Append(f, ch) : f \in FormatsOfLen(n - 1), ch \in FormatChars}

\* Formats passed as options.format: the empty sequence is a missing (or
\* empty) format.
FormatArgs == UNION {FormatsOfLen(n) : n \in 0..MaxFormatLen}

\* TimeFormatter.defaultFormat(): "YYYY-MM-DDTHH:mm:ss.SSSSSSSZ".
defaultFormat ==
  <<"Y", "Y", "Y", "Y", "-", "M", "M", "-", "D", "D", "T", "H", "H", ":",
    "m", "m", ":", "s", "s", ".", "S", "S", "S", "S", "S", "S", "S", "Z">>

\* Positions where the two characters "dd" start.
Occurrences(format) ==
  {i \in 1..(Len(format) - 1) : format[i] = "d" /\ format[i + 1] = "d"}

\* format.includes("dd").
IncludesDd(format) == Occurrences(format) # {}

\* String.prototype.replace("dd", "DD"): only the first occurrence.
replaceFormatTokens(format) ==
  IF ~IncludesDd(format) THEN format
  ELSE LET i == CHOOSE k \in Occurrences(format) :
                  \A j \in Occurrences(format) : k <= j
       IN [k \in 1..Len(format) |->
             IF k \in {i, i + 1} THEN "D" ELSE format[k]]

\* Time.#normalizeFormat(format).
normalizeFormat(format) ==
  IF format # <<>> THEN replaceFormatTokens(format) ELSE defaultFormat

\* The format Time.dateToString of core.js hands to moment.
normalizeFormat_Legacy(format) ==
  IF format = <<>> THEN defaultFormat
  ELSE IF IncludesDd(format) THEN replaceFormatTokens(format)
  ELSE format

(* ---------- Time ---------- *)
DefaultTimeZone == "America/Sao_Paulo"

\* Offset of a zone from UTC, in hours.
ZoneOffset(z) ==
  CASE z = DefaultTimeZone -> -3
    [] z = "UTC" -> 0
    [] z = "Asia/Tokyo" -> 9

\* Local zone of the machine that runs the script.
HostZones == {"UTC", "Asia/Tokyo"}

\* Values passed as options.timeZone.
TimeZoneArgs == {JSUndefined, "UTC", "Asia/Tokyo"}

\* The format "dd/MM".
DayMonthFormat == <<"d", "d", "/", "M", "M">>

\* Calls of parseDate: a text in ISO layout without format, a text written
\* in a format together with that format, and texts that are no date.  wall
\* is the hour the text denotes, counted from the start of the epoch day.
ParseArgs ==
  {[text |-> "iso", format |-> <<>>, wall |-> w] : w \in {0, 22}}
    \cup {[text |-> "dd/MM", format |-> DayMonthFormat, wall |-> w] :
            w \in {0, 22}}
    \cup {[text |-> "not-a-date", format |-> f, wall |-> 0] :
            f \in {<<>>, DayMonthFormat}}

\* moment(date) / moment(date, format, culture): whether it is valid and
\* the instant (hours, UTC) of the wall-clock time read in moment's default
\* zone.
createMomentDate(arg) ==
  [isValid |-> arg.text # "not-a-date",
   instant |-> arg.wall - ZoneOffset(DefaultTimeZone)]

\* No call of parseDate.
NoParseArg == [text |-> "none", format |-> <<>>, wall |-> 0]

\* No date returned.
NoDate == [instant |-> 0, rendersIn |-> JSUndefined]

\* What toDateString, toTimeString and toString of a returned Date show on
\* a machine whose local zone is host: a native Date renders in the host
\* zone, a Date whose methods were replaced renders in the zone they hold.
DateStrings(d, host) ==
  LET z == IF d.rendersIn = "host" THEN host ELSE d.rendersIn
      local == d.instant + ZoneOffset(z)
  IN [toDateString |-> <<local \div 24>>,
      toTimeString |-> <<local % 24, ZoneOffset(z)>>,
      toString |-> <<local \div 24, local % 24, ZoneOffset(z)>>]

\* Time.parseDate(date, options) of Time.js: the error thrown (or "none")
\* and the Date returned, a native Date.
parseDate(arg, timeZoneArg) ==
  LET parsedDate == createMomentDate(arg) IN
  IF ~parsedDate.isValid
  THEN [raised |-> "InvalidDateError", date |-> NoDate]
  ELSE [raised |-> "none",
        date |-> [instant |-> parsedDate.instant, rendersIn |-> "host"]]

\* Time.parseDate(date, options) of core.js: throws a plain Error, and
\* replaces the three string methods of the Date it returns.
parseDate_Legacy(arg, timeZoneArg) ==
  LET momentDate == createMomentDate(arg)
      timeZone == IF timeZoneArg = JSUndefined
                  THEN DefaultTimeZone ELSE timeZoneArg
  IN
  IF ~momentDate.isValid
  THEN [raised |-> "Error", date |-> NoDate]
  ELSE [raised |-> "none",
        date |-> [instant |-> momentDate.instant, rendersIn |-> timeZone]]

\* Time.dateToString(date, options): the call made to the rendering
\* library (the instant, the zone and the format handed to it).
dateToString(instant, timeZoneArg, format) ==
  [instant |-> instant,
   zone |-> IF timeZoneArg = JSUndefined
            THEN DefaultTimeZone ELSE timeZoneArg,
   format |-> normalizeFormat(format)]

dateToString_Legacy(instant, timeZoneArg, format) ==
  [instant |-> instant,
   zone |-> IF timeZoneArg = JSUndefined
            THEN DefaultTimeZone ELSE timeZoneArg,
   format |-> normalizeFormat_Legacy(format)]

\* Nothing handed to the rendering library.
NoRendering == [instant |-> 0, zone |-> JSUndefined, format |-> <<>>]

\* Instants passed to dateToString.
Instants == {0, 25}

(* ---------- Init and actions ---------- *)
Init ==
  /\ store = [c \in Contexts |-> <<>>]
  /\ now = 0
  /\ last = [op |-> "none", ctx |-> "A", name |-> NoName,
             value |-> JSUndefined, err |-> "none",
             result |-> JSUndefined, before |-> "absent"]
  /\ http = [facade |-> "none",
             options |-> [method |-> JSUndefined, body |-> JSUndefined],
             transport |-> NoTransport,
             result |-> FetchResult("none", NoFetchInit, NoResponse),
             requests |-> 0]
  /\ time = [impl |-> "none", op |-> "none", host |-> "UTC",
             arg |-> NoParseArg, timeZone |-> JSUndefined,
             format |-> <<>>, instant |-> 0, raised |-> "none",
             date |-> NoDate, rendering |-> NoRendering]

GetVariableAsync(c, name) ==
  LET r == ContextGet(store[c], name, now) IN
  /\ store' = OwnRepository(c, r.store)
  /\ last' = Call("get", c, name, JSUndefined, r)
  /\ UNCHANGED <<now, http, time>>

SetVariableAsync(c, name, value, exp) ==
  LET r == ContextSet(store[c], name, value, ExpirationOf(exp), now) IN
  /\ store' = OwnRepository(c, r.store)
  /\ last' = Call("set", c, name, value, r)
  /\ UNCHANGED <<now, http, time>>

DeleteVariableAsync(c, name) ==
  LET r == ContextDelete(store[c], name, now) IN
  /\ store' = OwnRepository(c, r.store)
  /\ last' = Call("delete", c, name, JSUndefined, r)
  /\ UNCHANGED <<now, http, time>>

\* VariableRepository.has observed on its own.
Has(c, n) ==
  /\ last' = Call("has", c, [type |-> "string", str |-> n], JSUndefined,
                  [err |-> "none", result |-> RepoHas(store[c], n, now)])
  /\ UNCHANGED <<store, now, http, time>>

\* The clock advances.
Tick ==
  /\ now < MaxTime
  /\ now' = now + 1
  /\ UNCHANGED <<store, last, http, time>>

\* One script session using the exported `context` instance.
Next ==
  \/ \E name \in NameArgs : GetVariableAsync("A", name)
  \/ \E name \in NameArgs, value \in Values, exp \in ExpirationArgs :
        SetVariableAsync("A", name, value, exp)
  \/ \E name \in NameArgs : DeleteVariableAsync("A", name)
  \/ \E n \in ValidNames : Has("A", n)
  \/ Tick

Spec == Init /\ [][Next]_vars

\* Two sessions, each with its own Context, interleaved.
IsoNameArgs == {[type |-> "string", str |-> "x"]}
IsoValues == {JSUndefined, "a"}
IsoExpirationArgs == {[given |-> FALSE, ms |-> 0], [given |-> TRUE, ms |-> 1]}

NextIso ==
  \/ \E c \in Contexts, name \in IsoNameArgs : GetVariableAsync(c, name)
  \/ \E c \in Contexts, name \in IsoNameArgs, value \in IsoValues,
        exp \in IsoExpirationArgs : SetVariableAsync(c, name, value, exp)
  \/ \E c \in Contexts, name \in IsoNameArgs : DeleteVariableAsync(c, name)
  \/ \E c \in Contexts, name \in IsoNameArgs : Has(c, name.str)
  \/ Tick

SpecIso == Init /\ [][NextIso]_vars

(* ---------- the step just taken, read off the record of the call ---------- *)
IsGet == last'.op = "get" /\ GetVariableAsync(last'.ctx, last'.name)

SetWith(exp) ==
  /\ last'.op = "set"
  /\ SetVariableAsync(last'.ctx, last'.name, last'.value, exp)

IsSet == \E exp \in ExpirationArgs : SetWith(exp)

IsDelete == last'.op = "delete" /\ DeleteVariableAsync(last'.ctx, last'.name)

IsHas == last'.op = "has" /\ Has(last'.ctx, last'.name.str)

\* A name argument that is a non-empty string / one that is not.
IsValidName(name) == name.type = "string" /\ name.str # EmptyString

NamingErrors == {"ReferenceError", "TypeError"}

\* The entry of the call's name in the call's context, before the call.
HadEntry == last'.name.str \in DOMAIN store[last'.ctx]
EntryBefore == store[last'.ctx][last'.name.str]

(* ---------- C1 ---------- *)
\* C1: a getVariableAsync(name) that directly follows a successful
\* setVariableAsync(name, value) on the same Context, before the TTL has
\* elapsed, returns exactly the value passed to set (undefined and null
\* included).
C1_SetGetRoundTrip ==
  [][(/\ last.op = "set" /\ last.err = "none"
      /\ IsGet
      /\ last'.ctx = last.ctx /\ last'.name = last.name
      /\ ~(/\ HadEntry /\ EntryBefore.expiration # NoExpiration
           /\ now >= EntryBefore.expiration))
     => (last'.err = "none" /\ last'.result = last.value)]_vars

\* A stored undefined was read back.
C1_Witness ==
  /\ last.op = "get" /\ last.err = "none" /\ last.result = JSUndefined
  /\ last.name.str \in DOMAIN store[last.ctx]
  /\ store[last.ctx][last.name.str].value = JSUndefined

(* ---------- C2 ---------- *)
\* C2: a get of an entry stored with a TTL at time t, performed at any clock
\* time >= t + ttl (its expiration instant included), returns the absent
\* representation, and has(name) is false afterwards.
C2_ExpiredFromTtlOn ==
  [][(/\ IsGet /\ IsValidName(last'.name) /\ HadEntry
      /\ EntryBefore.expiration # NoExpiration
      /\ now >= EntryBefore.expiration)
     => (/\ last'.result = JSNull
         /\ RepoHas(store'[last'.ctx], last'.name.str, now') # "true")]_vars

(* ---------- C3 ---------- *)
\* C3: an entry stored with expiration 0 or with no expiration argument
\* never expires: it is stored without an expiry, no clock advance and no
\* get or has removes or changes it, and get returns its value, until the
\* name is set again or deleted.
C3_ZeroNeverExpires ==
  [][/\ \A exp \in ExpirationArgs :
          (ExpirationOf(exp) = 0 /\ last'.err = "none" /\ SetWith(exp))
          => (/\ last'.name.str \in DOMAIN store'[last'.ctx]
              /\ store'[last'.ctx][last'.name.str] =
                   [value |-> last'.value, expiration |-> NoExpiration])
     /\ \A c \in Contexts : \A n \in DOMAIN store[c] :
          (/\ store[c][n].expiration = NoExpiration
           /\ (n \notin DOMAIN store'[c] \/ store'[c][n] # store[c][n]))
          => (last'.ctx = c /\ last'.name.str = n /\ (IsSet \/ IsDelete))
     /\ (/\ last'.op = "get" /\ HadEntry
         /\ EntryBefore.expiration = NoExpiration /\ IsGet)
          => last'.result = EntryBefore.value]_vars

\* A never-expiring entry was read back and is still held at the last clock time.
C3_Witness ==
  /\ last.op = "get" /\ last.err = "none" /\ last.result = "a"
  /\ now = MaxTime
  /\ last.name.str \in DOMAIN store[last.ctx]
  /\ store[last.ctx][last.name.str].expiration = NoExpiration

(* ---------- C4 ---------- *)
\* C4: setVariableAsync with a valid name and expiration < 0 fails with
\* ExpirationError and leaves the repository exactly as it was.
C4_NegativeExpirationRejected ==
  [][\A exp \in ExpirationArgs :
       (ExpirationOf(exp) < 0 /\ IsValidName(last'.name) /\ SetWith(exp))
       => (last'.err = "ExpirationError" /\ store' = store)]_vars

\* A negative expiration was rejected while the name had an entry.
C4_Witness ==
  /\ last.op = "set" /\ last.err = "ExpirationError"
  /\ last.name.str \in DOMAIN store[last.ctx]

(* ---------- C5 ---------- *)
\* C5: getVariableAsync of a valid name that has no entry, or whose entry
\* has expired, returns the empty string.
C5_EmptyStringWhenMissing ==
  [][(/\ IsGet /\ IsValidName(last'.name)
      /\ (~HadEntry \/ isExpired(EntryBefore, now)))
     => last'.result = EmptyString]_vars

(* ---------- C6 ---------- *)
\* C6: setVariableAsync with the value undefined is not rejected and leaves
\* an entry holding an empty object.
C6_UndefinedStoredAsEmptyObject ==
  [][\A exp \in ExpirationArgs :
       (/\ ExpirationOf(exp) >= 0 /\ IsValidName(last'.name)
        /\ last'.value = JSUndefined /\ SetWith(exp))
       => (/\ last'.err = "none"
           /\ last'.name.str \in DOMAIN store'[last'.ctx]
           /\ store'[last'.ctx][last'.name.str].value = EmptyObject)]_vars

(* ---------- C7 ---------- *)
\* C7: get, set and delete called with a name that is empty, missing or not
\* a string fail with a naming error and leave the repository unchanged; for
\* set this holds also when the expiration is negative.
C7_InvalidNameRejected ==
  [][(~IsValidName(last'.name) /\ (IsGet \/ IsSet \/ IsDelete))
     => (/\ last'.err \in NamingErrors /\ store' = store
         /\ \A exp \in ExpirationArgs :
              (ExpirationOf(exp) < 0 /\ SetWith(exp))
              => last'.err # "ExpirationError")]_vars

\* A set with a non-string name got the naming error, in a repository that
\* holds an entry.
C7_Witness ==
  /\ last.op = "set" /\ last.name.type # "string"
  /\ last.err \in NamingErrors
  /\ store[last.ctx] # <<>>

(* ---------- C8 ---------- *)
\* C8: deleteVariableAsync of a valid name that has no entry completes
\* without an error and leaves the repository unchanged.
C8_DeleteAbsentIsNoOp ==
  [][(IsDelete /\ IsValidName(last'.name) /\ ~HadEntry)
     => (last'.err = "none" /\ store' = store)]_vars

\* A delete of a name without an entry, in a repository holding another one.
C8_Witness ==
  /\ last.op = "delete" /\ IsValidName(last.name) /\ last.err = "none"
  /\ last.name.str \notin DOMAIN store[last.ctx]
  /\ store[last.ctx] # <<>>

(* ---------- C9 ---------- *)
\* C9: after deleteVariableAsync(name) with a valid name the repository
\* holds no entry for name, whether the entry was live or expired.
C9_DeleteRemovesEntry ==
  [][(IsDelete /\ IsValidName(last'.name))
     => last'.name.str \notin DOMAIN store'[last'.ctx]]_vars

(* ---------- C10 ---------- *)
\* C10: with two Context instances, a call on one never changes the other's
\* repository nor what a get on the other returns, a delete on one never
\* removes the other's entry, and a name stays absent on a Context until it
\* is set on that very Context.
C10_Isolation ==
  [][/\ \A d \in Contexts \ {last'.ctx} :
          (IsGet \/ IsSet \/ IsDelete \/ IsHas)
          => (/\ store'[d] = store[d]
              /\ \A n \in ValidNames :
                   RepoGet(store'[d], n, now').result =
                     RepoGet(store[d], n, now).result)
     /\ \A d \in Contexts : \A n \in ValidNames :
          (n \notin DOMAIN store[d] /\ n \in DOMAIN store'[d])
          => (IsSet /\ last'.ctx = d /\ last'.name.str = n
              /\ last'.err = "none")]_vars

\* A delete on one Context completed while the other still holds the name.
C10_Witness ==
  /\ last.op = "delete" /\ last.err = "none"
  /\ last.name.str \notin DOMAIN store[last.ctx]
  /\ \E d \in Contexts \ {last.ctx} :
       /\ last.name.str \in DOMAIN store[d]
       /\ RepoGet(store[d], last.name.str, now).result = "a"

(* ---------- HttpRequest and Time sessions ---------- *)
\* The record of a fetchAsync call: the transport is part of it only when
\* fetch was called.
HttpCall(facade, options, tr, r) ==
  [facade |-> facade, options |-> options,
   transport |-> IF r.sent = NoFetchInit THEN NoTransport ELSE tr,
   result |-> r,
   requests |-> IF r.sent = NoFetchInit
                THEN http.requests ELSE http.requests + 1]

\* A script calls fetchAsync of the successor facade.
FetchAsync(options, tr) ==
  /\ http.requests < MaxRequests
  /\ http' = HttpCall("successor", options, tr, fetchAsync(options, tr))
  /\ UNCHANGED <<store, now, last, time>>

\* A script calls fetchAsync of the earlier variant.
FetchAsync_Earlier(options, tr) ==
  /\ http.requests < MaxRequests
  /\ http' = HttpCall("earlier", options, tr, fetchAsync_Earlier(options, tr))
  /\ UNCHANGED <<store, now, last, time>>

NextHttp ==
  \/ \E options \in HttpOptions, tr \in Transports : FetchAsync(options, tr)
  \/ \E options \in HttpOptions, tr \in Transports :
        FetchAsync_Earlier(options, tr)

SpecHttp == Init /\ [][NextHttp]_vars

\* The record of a Time call.
ParseCall(impl, host, arg, timeZoneArg, r) ==
  [impl |-> impl, op |-> "parseDate", host |-> host, arg |-> arg,
   timeZone |-> timeZoneArg, format |-> arg.format, instant |-> 0,
   raised |-> r.raised, date |-> r.date, rendering |-> NoRendering]

\* (dateToString does not read the machine's zone.)
RenderCall(impl, instant, timeZoneArg, format, r) ==
  [impl |-> impl, op |-> "dateToString", host |-> JSUndefined,
   arg |-> NoParseArg,
   timeZone |-> timeZoneArg, format |-> format, instant |-> instant,
   raised |-> "none", date |-> NoDate, rendering |-> r]

\* A script on a machine in zone host calls time.parseDate (Time.js).
ParseDate(host, arg, timeZoneArg) ==
  /\ time' = ParseCall("Time.js", host, arg, timeZoneArg,
                       parseDate(arg, timeZoneArg))
  /\ UNCHANGED <<store, now, last, http>>

\* The same call on the Time of core.js.
ParseDate_Legacy(host, arg, timeZoneArg) ==
  /\ time' = ParseCall("core.js", host, arg, timeZoneArg,
                       parseDate_Legacy(arg, timeZoneArg))
  /\ UNCHANGED <<store, now, last, http>>

\* A script calls time.dateToString (Time.js).
DateToString(instant, timeZoneArg, format) ==
  /\ time' = RenderCall("Time.js", instant, timeZoneArg, format,
                        dateToString(instant, timeZoneArg, format))
  /\ UNCHANGED <<store, now, last, http>>

\* The same call on the Time of core.js.
DateToString_Legacy(instant, timeZoneArg, format) ==
  /\ time' = RenderCall("core.js", instant, timeZoneArg, format,
                        dateToString_Legacy(instant, timeZoneArg, format))
  /\ UNCHANGED <<store, now, last, http>>

NextTime ==
  \/ \E host \in HostZones, arg \in ParseArgs, tz \in TimeZoneArgs :
        ParseDate(host, arg, tz)
  \/ \E host \in HostZones, arg \in ParseArgs, tz \in TimeZoneArgs :
        ParseDate_Legacy(host, arg, tz)
  \/ \E i \in Instants, tz \in TimeZoneArgs, f \in FormatArgs :
        DateToString(i, tz, f)
  \/ \E i \in Instants, tz \in TimeZoneArgs, f \in FormatArgs :
        DateToString_Legacy(i, tz, f)

SpecTime == Init /\ [][NextTime]_vars

(* ---------- C17 ---------- *)
\* C17: a successful set on a name that already has an entry leaves an entry
\* whose value is the new value and whose expiry comes from the new set alone
\* (clock time of the set + ttl when ttl > 0, none when ttl = 0); and no get
\* or has changes the expiry of an entry that it leaves in the repository.
C17_SetReplacesEntry ==
  [][/\ \A exp \in ExpirationArgs :
          (/\ ExpirationOf(exp) >= 0 /\ IsValidName(last'.name) /\ HadEntry
           /\ SetWith(exp))
          => (/\ last'.name.str \in DOMAIN store'[last'.ctx]
              /\ store'[last'.ctx][last'.name.str] =
                   [value |-> last'.value,
                    expiration |-> IF ExpirationOf(exp) > 0
                                   THEN now + ExpirationOf(exp)
                                   ELSE NoExpiration])
     /\ (last'.op \in {"get", "has"} /\ (IsGet \/ IsHas))
          => \A c \in Contexts : \A n \in DOMAIN store'[c] :
               /\ n \in DOMAIN store[c]
               /\ store'[c][n].expiration = store[c][n].expiration]_vars

\* A set replaced an entry that had already expired by one that never expires.
C17_Witness ==
  /\ last.op = "set" /\ last.err = "none" /\ last.before = "expired"
  /\ store[last.ctx][last.name.str].expiration = NoExpiration

(* ---------- C18 ---------- *)
\* C18 as claimed: an expired entry is removed by the first get or has that
\* observes it, and no entry is removed by the passage of time alone.
C18_EvictedOnGetOrHas ==
  [][/\ (/\ last'.op \in {"get", "has"} /\ IsValidName(last'.name)
         /\ HadEntry /\ isExpired(EntryBefore, now) /\ (IsGet \/ IsHas))
          => last'.name.str \notin DOMAIN store'[last'.ctx]
     /\ Tick => store' = store]_vars

\* C18: an expired entry is removed by the first get that observes it, has
\* reports it as not present and leaves it in the repository, and no entry
\* is removed by the passage of time alone.
C18_EvictedOnGetOnly ==
  [][/\ (/\ last'.op = "get" /\ IsValidName(last'.name)
         /\ HadEntry /\ isExpired(EntryBefore, now) /\ IsGet)
          => last'.name.str \notin DOMAIN store'[last'.ctx]
     /\ (/\ last'.op = "has"
         /\ HadEntry /\ isExpired(EntryBefore, now) /\ IsHas)
          => (last'.result = "false" /\ store' = store)
     /\ Tick => store' = store]_vars

\* A get found an expired entry and removed it.
C18_Witness ==
  /\ last.op = "get" /\ last.err = "none" /\ last.before = "expired"
  /\ last.result = JSNull
  /\ last.name.str \notin DOMAIN store[last.ctx]

(* ---------- C20 ---------- *)
\* The reference store: it holds an entry only until the clock passes the
\* entry's expiration, and removes it at that instant.
RefExpired(e, t) == e.expiration # NoExpiration /\ t > e.expiration

RefSweep(r, t) == [n \in {m \in DOMAIN r : ~RefExpired(r[m], t)} |-> r[n]]

RefGet(r, n) == IF n \in DOMAIN r THEN r[n].value ELSE JSNull

RefSet(r, n, v, ttl, t) ==
  [m \in DOMAIN r \cup {n} |->
     IF m = n
     THEN [value |-> v,
           expiration |-> IF ttl > 0 THEN t + ttl ELSE NoExpiration]
     ELSE r[m]]

RefDelete(r, n) == [m \in DOMAIN r \ {n} |-> r[m]]

\* The reference store that corresponds to a context's repository: the
\* entries of the Map that have not expired.
RefOf(c) == RefSweep(store[c], now)

\* The reference store after the same call as the step just taken; calls
\* that raise leave it alone.
RefAfter(c, r) ==
  LET n == last'.name.str IN
  \/ /\ last'.op = "get" /\ GetVariableAsync(c, last'.name)
     /\ last'.err = "none" => last'.result = RefGet(RefOf(c), n)
     /\ r = RefOf(c)
  \/ /\ last'.op = "set"
     /\ \E exp \in ExpirationArgs :
          /\ SetVariableAsync(c, last'.name, last'.value, exp)
          /\ r = IF last'.err = "none"
                 THEN RefSet(RefOf(c), n, last'.value, ExpirationOf(exp), now)
                 ELSE RefOf(c)
  \/ /\ last'.op = "delete" /\ DeleteVariableAsync(c, last'.name)
     /\ r = IF last'.err = "none" THEN RefDelete(RefOf(c), n) ELSE RefOf(c)
  \/ /\ last'.op = "has" /\ Has(c, n)
     /\ r = RefOf(c)

\* C20: the lazily evicting Context and the reference store, fed the same
\* calls and clock advances, stay in correspondence, and every successful
\* getVariableAsync returns what the reference store returns.
C20_LazyEqualsEager ==
  [][\A c \in Contexts :
       LET r == RefSweep(store'[c], now') IN
       IF now' # now THEN Tick /\ r = RefSweep(RefOf(c), now')
       ELSE IF c = last'.ctx THEN RefAfter(c, r)
       ELSE r = RefOf(c)]_vars

\* A delete met an expired entry that had not been evicted, left it in the
\* Map, and the name is absent from the reference store.
C20_Witness ==
  /\ last.op = "delete" /\ last.err = "none" /\ last.before = "expired"
  /\ last.name.str \in DOMAIN store[last.ctx]
  /\ last.name.str \notin DOMAIN RefOf(last.ctx)

(* ---------- C11 ---------- *)
\* C11 as claimed: in every Time implementation, a parseDate whose parse
\* yields no valid date raises InvalidDateError and returns no date.
C11_InvalidDateErrorEverywhere ==
  (time.op = "parseDate" /\ time.arg.text = "not-a-date")
    => (time.raised = "InvalidDateError" /\ time.date = NoDate)

(* ---------- C12 ---------- *)
\* The zone configured for a parseDate call.
ConfiguredZone ==
  IF time.timeZone = JSUndefined THEN DefaultTimeZone ELSE time.timeZone

\* C12 as claimed: on whatever machine the script runs, toDateString,
\* toTimeString and toString of the date returned by parseDate show the
\* date in the configured zone.
C12_ZoneNeverLeaks ==
  (time.op = "parseDate" /\ time.raised = "none")
    => \A host \in HostZones :
         DateStrings(time.date, host) =
           DateStrings([instant |-> time.date.instant,
                        rendersIn |-> ConfiguredZone], host)

(* ---------- C13 ---------- *)
\* Position k of a format lies in a day-of-month token: a run of exactly
\* two "d".
InDayToken(f, k) ==
  /\ f[k] = "d"
  /\ \/ /\ k < Len(f) /\ f[k + 1] = "d"
        /\ (k = 1 \/ f[k - 1] # "d")
        /\ (k + 1 = Len(f) \/ f[k + 2] # "d")
     \/ /\ k > 1 /\ f[k - 1] = "d"
        /\ (k = 2 \/ f[k - 2] # "d")
        /\ (k = Len(f) \/ f[k + 1] # "d")

\* The format with every day-of-month token translated, all else kept.
EveryDayTokenTranslated(f) ==
  [k \in 1..Len(f) |-> IF InDayToken(f, k) THEN "D" ELSE f[k]]

\* C13 as claimed: the format handed to the rendering library is the format
\* passed to dateToString with "dd" translated to "DD" wherever that token
\* occurs and every other character unchanged.
C13_DayTokenTranslatedEverywhere ==
  (time.op = "dateToString" /\ time.format # <<>>)
    => time.rendering.format = EveryDayTokenTranslated(time.format)

(* ---------- C14 ---------- *)
\* C14: a fetchAsync call whose method is given and is none of GET, POST,
\* PUT, PATCH, DELETE, OPTIONS, HEAD, TRACE raises InvalidMethodError and
\* hands no request to fetch; a call with one of those verbs, or with no
\* method (a missing, null or empty method), never raises
\* InvalidMethodError.
C14_InvalidMethodRejected ==
  [][(http' # http) =>
       LET m == http'.options.method
           verb == m \in {"GET", "POST", "PUT", "PATCH", "DELETE",
                          "OPTIONS", "HEAD", "TRACE"}
           given == m \notin {JSUndefined, JSNull, EmptyString}
       IN /\ (given /\ ~verb)
               => /\ http'.result.raised = "InvalidMethodError"
                  /\ http'.result.sent = NoFetchInit
                  /\ http'.requests = http.requests
          /\ (verb \/ ~given)
               => http'.result.raised # "InvalidMethodError"]_vars

\* After a request went out, a call with the method "get" was rejected and
\* no further request went out.
C14_Witness ==
  /\ http.options.method = "get"
  /\ http.result.raised = "InvalidMethodError"
  /\ http.requests = 1

(* ---------- C15 ---------- *)
\* C15: when fetch or the body read fails, fetchAsync raises nothing and
\* returns an object with status 0, success false, an error message and a
\* jsonAsync that resolves to null.
C15_TransportFailureDegrades ==
  (http.transport.kind \in {"fetch rejects", "text rejects"})
    => /\ http.result.raised = "none"
       /\ http.result.response.status = 0
       /\ http.result.response.success = FALSE
       /\ http.result.response.error \notin {JSUndefined, JSNull, EmptyString}
       /\ http.result.response.jsonAsync = JSNull

\* The body read of a POST failed and the degraded object came back.
C15_Witness ==
  /\ http.transport.kind = "text rejects"
  /\ http.result.sent.method = "POST"
  /\ http.result.response.status = 0
  /\ http.result.response.error = "body read failed"

C19_EarlierVariantRaises ==
  (/\ http.facade = "earlier" /\ http.transport.kind = "response"
   /\ http.transport.body \in {"oops", EmptyString})
    => /\ http.result.raised # "none"
       /\ http.result.response = NoResponse

====
